---- MODULE Spec2Model ----
(***************************************************************************)
(* Model of the KPI/analysis engine of flash-narrative (src/analysis.py):  *)
(* the keyword sentiment classifier, the theme cascade, the brand mention  *)
(* detector and the metric aggregator of compute_kpis, and the keyword     *)
(* ranking of extract_keywords.                                            *)
(*                                                                         *)
(* Texts are strings and are matched character by character, as the        *)
(* regular expressions and the `in` tests of the code match them.  Python  *)
(* floats are modelled as exact rationals [num, den].  A record (a Python  *)
(* dict) is a function whose DOMAIN is the set of keys it holds.  A        *)
(* numeric field holds a tagged value: an integer, a string or NaN.        *)
(***************************************************************************)
EXTENDS Integers, Sequences, FiniteSets, TLC

VARIABLES
    full_data,          \* the list of mention records, annotated in place
    campaign_messages,  \* argument of compute_kpis
    brand,              \* argument of compute_kpis
    competitors,        \* argument of compute_kpis
    pc,                 \* position in compute_kpis: idle, call, loop, aggregate,
                        \* done, raised
    idx,                \* index of the record the main loop is at
    tones,              \* list of sentiments appended by the loop
    themes,             \* list of themes appended by the loop
    brand_counts,       \* Counter: name -> number of records mentioning it
    kpis,               \* the value compute_kpis returned (<<>> is {})
    input,              \* the records as they were before the first call
    earlier,            \* the summaries of the calls completed before this one
    tokens,             \* nltk.word_tokenize(all_text.lower()) in extract_keywords
    keywords,           \* the list extract_keywords returned
    kw_pc,              \* position in extract_keywords: idle, call, done, raised
    stop_words,         \* the module global analysis.stop_words
    session,            \* st.session_state: key -> value
    run_pc,             \* position in the dashboard script: off (no page run),
                        \* idle, kpis, keywords
    handled,            \* the user event the application handled last
    notified,           \* what the notification collaborators did, in order
    original_stopwords, \* the local of run_analysis_from_demo of that name
    env                 \* the process environment: settings read by os.getenv,
                        \* and what the outside world answers

vars == <<full_data, campaign_messages, brand, competitors, pc, idx,
          tones, themes, brand_counts, kpis, input, earlier,
          tokens, keywords, kw_pc, stop_words, session, run_pc, handled, notified,
          original_stopwords, env>>

\* The state of the application around the engine.
app_vars == <<stop_words, session, run_pc, handled, notified, original_stopwords, env>>

\* What a compute_kpis step leaves alone.
caller_vars == <<input, earlier, tokens, keywords, kw_pc, app_vars>>

-----------------------------------------------------------------------------
(* Strings: str.lower(), `sub in s`, and re.search(r'\b' + k + r'\b', s).  *)

Uppers == "ABCDEFGHIJKLMNOPQRSTUVWXYZ"
Lowers == "abcdefghijklmnopqrstuvwxyz"
Digits == "0123456789"

CharAt(s, i) == SubSeq(s, i, i)

CharsOf(s) == {CharAt(s, i) : i \in 1..Len(s)}

UpperChars == CharsOf(Uppers)

\* \w of the re module on ASCII text: letters, digits and the underscore.
WordChars == UpperChars \cup CharsOf(Lowers) \cup CharsOf(Digits) \cup {"_"}

IsWordChar(c) == c \in WordChars

\* The lowercase letter of each uppercase letter.
LowerMap ==
    [c \in UpperChars |->
        CharAt(Lowers, CHOOSE i \in 1..Len(Uppers) : CharAt(Uppers, i) = c)]

LowerChar(c) == IF c \in UpperChars THEN LowerMap[c] ELSE c

\* str.lower()
RECURSIVE Lower(_)
Lower(s) ==
    IF s = "" THEN ""
    ELSE LowerChar(CharAt(s, 1)) \o Lower(SubSeq(s, 2, Len(s)))

\* Python's `sub in s`: sub occurs in s as a substring.
Contains(sub, s) ==
    \E i \in 1..(Len(s) - Len(sub) + 1) : SubSeq(s, i, i + Len(sub) - 1) = sub

\* \b of the re module after the first p characters of s: exactly one of the
\* characters on the two sides of the position is a word character (the
\* outside of the string counts as a non-word character).
WordBoundary(s, p) ==
    LET left == p >= 1 /\ IsWordChar(CharAt(s, p))
        right == p + 1 <= Len(s) /\ IsWordChar(CharAt(s, p + 1))
    IN left # right

\* Fault: the pattern lacks its trailing \b.
SearchWordNoRightBoundary(k, s) ==
    \E i \in 0..(Len(s) - Len(k)) :
        /\ SubSeq(s, i + 1, i + Len(k)) = k
        /\ WordBoundary(s, i)

\* re.search(r'\b' + re.escape(k) + r'\b', s) finds a match.
SearchWord(k, s) ==
    \E i \in 0..(Len(s) - Len(k)) :
        /\ SubSeq(s, i + 1, i + Len(k)) = k
        /\ WordBoundary(s, i)
        /\ WordBoundary(s, i + Len(k))

\* dict.get(key, default)
Get(item, key, default) == IF key \in DOMAIN item THEN item[key] ELSE default

\* Fault: the record is replaced by one that holds the new field alone.
PutAlone(item, key, value) == [k \in {key} |-> value]

\* item[key] = value
Put(item, key, value) ==
    [k \in DOMAIN item \cup {key} |-> IF k = key THEN value ELSE item[k]]

\* An integer field value.
Num(n) == [t |-> "int", v |-> n]

\* A string field value.
Str(s) == [t |-> "str", s |-> s]

\* The float NaN, which pandas stores for an empty cell.
NaN == [t |-> "nan"]

\* An exact rational standing for the float num / den.
Ratio(n, d) == [num |-> n, den |-> d]

Zero == Ratio(0, 1)

RangeOf(seq) == {seq[i] : i \in 1..Len(seq)}

\* Fault: every element is counted once, however often it occurs.
CounterOfPresence(seq) == [x \in RangeOf(seq) |-> 1]

\* Counter(seq): each element of seq -> its number of occurrences.
CounterOf(seq) ==
    [x \in RangeOf(seq) |-> Cardinality({i \in 1..Len(seq) : seq[i] = x})]

RECURSIVE SumOver(_, _)
SumOver(f, S) ==
    IF S = {} THEN 0
    ELSE LET x == CHOOSE y \in S : TRUE IN f[x] + SumOver(f, S \ {x})

-----------------------------------------------------------------------------
(* analyze_sentiment_keywords                                              *)

positive_kws == <<"good", "great", "excellent", "positive", "love", "awesome",
    "best", "happy", "like", "amazing", "superb", "fantastic", "recommend",
    "perfect", "honoured", "lauds", "empower", "support", "champions", "wins",
    "upgrades", "successful", "oversubscribed", "confidence">>

negative_kws == <<"bad", "poor", "terrible", "negative", "hate", "awful",
    "worst", "sad", "dislike", "broken", "fail", "issue", "problem",
    "disappointed", "avoid", "scam", "fraud", "downtime", "glitches", "fume",
    "arrest", "rift", "vanished", "failed", "undersubscribed", "loss">>

anger_kws == <<"angry", "furious", "rage", "mad", "outrage", "pissed",
    "fuming", "livid", "worst!">>

appreciation_kws == <<"thank", "appreciate", "grateful", "thanks", "kudos",
    "cheers", "props", "helpful", "honoured", "lauds", "legacy", "honoring">>

mixed_kws == <<"but", "however", "although", "yet", "still", "despite">>

\* sum(1 for k in kws if re.search(r'\b' + re.escape(k) + r'\b', text_lower))
KwCount(kws, text_lower) ==
    Cardinality({i \in 1..Len(kws) : SearchWord(kws[i], text_lower)})

\* Fault: the positive rule is tried before the mixed and negative rules.
SentimentPositiveBeforeNegative(text) ==
    IF text = "" THEN "neutral"
    ELSE LET text_lower == Lower(text)
             pos_count == KwCount(positive_kws, text_lower)
             neg_count == KwCount(negative_kws, text_lower)
             anger_count == KwCount(anger_kws, text_lower)
             app_count == KwCount(appreciation_kws, text_lower)
             has_mixed == KwCount(mixed_kws, text_lower) > 0
         IN  IF anger_count > 0 THEN "anger"
             ELSE IF pos_count > 0 THEN "positive"
             ELSE IF (pos_count > 0 /\ neg_count > 0)
                     \/ (has_mixed /\ (pos_count > 0 \/ neg_count > 0))
                  THEN "mixed"
             ELSE IF neg_count > 0 THEN "negative"
             ELSE IF app_count > 0 THEN "appreciation"
             ELSE "neutral"

analyze_sentiment_keywords(text) ==
    IF text = "" THEN "neutral"
    ELSE LET text_lower == Lower(text)
             pos_count == KwCount(positive_kws, text_lower)
             neg_count == KwCount(negative_kws, text_lower)
             anger_count == KwCount(anger_kws, text_lower)
             app_count == KwCount(appreciation_kws, text_lower)
             has_mixed == KwCount(mixed_kws, text_lower) > 0
         IN  IF anger_count > 0 THEN "anger"
             ELSE IF (pos_count > 0 /\ neg_count > 0)
                     \/ (has_mixed /\ (pos_count > 0 \/ neg_count > 0))
                  THEN "mixed"
             ELSE IF neg_count > 0 THEN "negative"
             ELSE IF pos_count > 0 THEN "positive"
             ELSE IF app_count > 0 THEN "appreciation"
             ELSE "neutral"

-----------------------------------------------------------------------------
(* Thematic analysis of compute_kpis: the first category with a keyword    *)
(* that is a substring of the lowercased text.                             *)

csr_kws == <<"csr", "esg", "donation", "community", "foundation", "initiative">>

corporate_kws == <<"ceo", "gmd", "profit", "results", "acquisition",
    "corporate", "raise", "capital", "bond">>

partnership_kws == <<"partner", "sponsorship", "marathon">>

product_kws == <<"app", "loan", "card", "customer service", "downtime",
    "glitch", "e-channel", "transfer">>

legal_kws == <<"fraud", "cbn", "efcc", "fine", "court", "scam", "allegation",
    "rift">>

\* any(kw in text_lower for kw in kws)
AnyKwIn(kws, text_lower) == \E i \in 1..Len(kws) : Contains(kws[i], text_lower)

\* Fault: Legal/Risk is tried before Corporate.
ThemeLegalBeforeCorporate(text_lower) ==
    IF AnyKwIn(csr_kws, text_lower) THEN "CSR/ESG"
    ELSE IF AnyKwIn(legal_kws, text_lower) THEN "Legal/Risk"
    ELSE IF AnyKwIn(corporate_kws, text_lower) THEN "Corporate"
    ELSE IF AnyKwIn(partnership_kws, text_lower) THEN "Partnership/Sponsorship"
    ELSE IF AnyKwIn(product_kws, text_lower) THEN "Product/Service"
    ELSE "General News"

ThemeOf(text_lower) ==
    IF AnyKwIn(csr_kws, text_lower) THEN "CSR/ESG"
    ELSE IF AnyKwIn(corporate_kws, text_lower) THEN "Corporate"
    ELSE IF AnyKwIn(partnership_kws, text_lower) THEN "Partnership/Sponsorship"
    ELSE IF AnyKwIn(product_kws, text_lower) THEN "Product/Service"
    ELSE IF AnyKwIn(legal_kws, text_lower) THEN "Legal/Risk"
    ELSE "General News"

-----------------------------------------------------------------------------
(* compute_kpis                                                            *)

social_sources == <<"reddit.com", "fb", "ig", "threads", "twitter", "x">>

DefaultAuthority == 5

\* all_brands_list = [brand] + competitors
AllBrandsList(b, comps) == <<b>> \o comps

all_brands_list == AllBrandsList(brand, competitors)

\* Fault: the list is built by appending, so a name can appear twice.
PermsWithRepeats(S) ==
    {p \in [1..(2 * Cardinality(S)) -> S] : \A x \in S : \E j \in DOMAIN p : p[j] = x}

\* The orders in which list(a_set) can enumerate the set S.
Perms(S) ==
    {p \in [1..Cardinality(S) -> S] : \A x \in S : \E j \in DOMAIN p : p[j] = x}

\* present_brands_in_item: the names of all_brands_list found in the text.
PresentBrands(names, text_lower) ==
    {names[j] : j \in {k \in 1..Len(names) : SearchWord(Lower(names[k]), text_lower)}}

\* for b_name in present_brands_in_item: brand_counts[b_name] += 1
Bump(counts, present) ==
    [n \in DOMAIN counts \cup present |->
        Get(counts, n, 0) + (IF n \in present THEN 1 ELSE 0)]

\* Fault: the shares are listed in the reverse order of the names.
SovReversed(names, counts) ==
    LET total_appearances == SumOver(counts, DOMAIN counts)
        n == Len(names)
    IN [j \in 1..n |->
          IF total_appearances > 0
          THEN Ratio(Get(counts, names[n + 1 - j], 0) * 100, total_appearances)
          ELSE Zero]

\* sov = [(brand_counts[b] / total_appearances * 100) if total_appearances > 0
\*        else 0 for b in all_brands_list]
Sov(names, counts) ==
    LET total_appearances == SumOver(counts, DOMAIN counts)
    IN [j \in 1..Len(names) |->
          IF total_appearances > 0
          THEN Ratio(Get(counts, names[j], 0) * 100, total_appearances)
          ELSE Zero]

\* Fault: the ratios are taken over the number of labels, not of records.
RatioOverLabelCount(labels, total_mentions) ==
    LET counts == CounterOf(labels)
    IN [l \in DOMAIN counts |->
          Ratio(counts[l] * 100, Cardinality(DOMAIN counts))]

\* {label: count / total_mentions * 100 for label, count in Counter(labels).items()}
RatioOf(labels, total_mentions) ==
    LET counts == CounterOf(labels)
    IN [l \in DOMAIN counts |-> Ratio(counts[l] * 100, total_mentions)]

\* Fault: the sentiment filter of mis is missing.
MisTermsAllRecords(data) ==
    [i \in 1..Len(data) |-> Get(data[i], "authority", Num(DefaultAuthority))]

\* The values sum() adds up for mis.
MisTerms(data) ==
    LET sel == {i \in 1..Len(data) :
                  Get(data[i], "sentiment", "") \in {"positive", "appreciation"}}
    IN [i \in sel |-> Get(data[i], "authority", Num(DefaultAuthority))]

\* sum() can add the value: a number (an integer, or the float NaN).  It
\* raises TypeError on a string.
Summable(value) == value.t \in {"int", "nan"}

\* sum(terms): NaN as soon as a term is NaN.
Mis(terms) ==
    IF \E i \in DOMAIN terms : terms[i].t = "nan" THEN NaN
    ELSE Num(SumOver([i \in DOMAIN terms |-> terms[i].v], DOMAIN terms))

\* Fault: a record is counted once per message it contains.
MatchesCountingMessages(data, lower_campaign_messages) ==
    SumOver([i \in 1..Len(data) |->
               Cardinality({m \in 1..Len(lower_campaign_messages) :
                   Contains(lower_campaign_messages[m],
                            Lower(Get(data[i], "text", "")))})],
            1..Len(data))

\* matches: the records whose text contains some lowercased campaign message.
Matches(data, lower_campaign_messages) ==
    Cardinality({i \in 1..Len(data) :
        \E m \in 1..Len(lower_campaign_messages) :
            Contains(lower_campaign_messages[m], Lower(Get(data[i], "text", "")))})

Mpi(data, messages) ==
    IF messages # <<>>
    THEN IF Len(data) > 0
         THEN Ratio(Matches(data, [m \in 1..Len(messages) |-> Lower(messages[m])]) * 100,
                    Len(data))
         ELSE Zero
    ELSE Zero

DigitChars == CharsOf(Digits)

\* str.strip() of the blanks around s.
RECURSIVE Strip(_)
Strip(s) ==
    IF s = "" THEN ""
    ELSE IF CharAt(s, 1) = " " THEN Strip(SubSeq(s, 2, Len(s)))
    ELSE IF CharAt(s, Len(s)) = " " THEN Strip(SubSeq(s, 1, Len(s) - 1))
    ELSE s

\* The literal without its sign.
Unsigned(s) ==
    IF s # "" /\ CharAt(s, 1) \in {"+", "-"} THEN SubSeq(s, 2, Len(s)) ELSE s

\* A decimal literal int() accepts: digits, single underscores between them.
IsLiteral(s) ==
    /\ s # ""
    /\ \A i \in 1..Len(s) : CharAt(s, i) \in DigitChars \cup {"_"}
    /\ CharAt(s, 1) # "_"
    /\ CharAt(s, Len(s)) # "_"
    /\ \A i \in 1..(Len(s) - 1) : ~(CharAt(s, i) = "_" /\ CharAt(s, i + 1) = "_")

DigitValue(c) == (CHOOSE i \in 1..Len(Digits) : CharAt(Digits, i) = c) - 1

RECURSIVE LiteralValue(_)
LiteralValue(s) ==
    IF s = "" THEN 0
    ELSE LET c == CharAt(s, Len(s))
             rest == LiteralValue(SubSeq(s, 1, Len(s) - 1))
         IN IF c = "_" THEN rest ELSE rest * 10 + DigitValue(c)

\* int(s) of a string.
ParseInt(s) ==
    LET body == Strip(s)
        magnitude == LiteralValue(Unsigned(body))
    IN IF body # "" /\ CharAt(body, 1) = "-" THEN 0 - magnitude ELSE magnitude

\* int(value) succeeds: on an integer and on a string holding a decimal
\* literal.  It raises ValueError on any other string and on NaN.
IntOk(value) ==
    \/ value.t = "int"
    \/ value.t = "str" /\ IsLiteral(Unsigned(Strip(value.s)))

IntVal(value) ==
    IF value.t = "int" THEN value.v
    ELSE IF value.t = "str" THEN ParseInt(value.s)
    ELSE 0

\* pd.isna(value)
IsNa(value) == value.t = "nan"

IsSocial(item) ==
    \E s \in 1..Len(social_sources) :
        Contains(social_sources[s], Lower(Get(item, "source", "")))

\* Fault: the engagement loop ends at the first record it cannot parse.
EngagementRecordsUntilFailure(data) ==
    LET ok(i) == /\ IntOk(Get(data[i], "likes", Num(0)))
                 /\ IntOk(Get(data[i], "comments", Num(0)))
    IN {i \in 1..Len(data) :
          /\ IsSocial(data[i])
          /\ \A k \in 1..i : IsSocial(data[k]) => ok(k)}

\* The records counted by the engagement loop: social source, and int() of
\* likes and of comments both succeed.
EngagementRecords(data) ==
    {i \in 1..Len(data) :
        /\ IsSocial(data[i])
        /\ IntOk(Get(data[i], "likes", Num(0)))
        /\ IntOk(Get(data[i], "comments", Num(0)))}

\* Fault: a social record whose likes or comments fails to parse still counts
\* in the denominator.
EngagementRateCountingFailures(data) ==
    LET counted == EngagementRecords(data)
        total_engagement ==
            SumOver([i \in counted |-> IntVal(Get(data[i], "likes", Num(0)))
                                       + IntVal(Get(data[i], "comments", Num(0)))],
                    counted)
        num_social_mentions == Cardinality({i \in 1..Len(data) : IsSocial(data[i])})
    IN IF num_social_mentions > 0
       THEN Ratio(total_engagement, num_social_mentions)
       ELSE Zero

\* total_engagement / num_social_mentions if num_social_mentions > 0 else 0
EngagementRate(data) ==
    LET counted == EngagementRecords(data)
        total_engagement ==
            SumOver([i \in counted |-> IntVal(Get(data[i], "likes", Num(0)))
                                       + IntVal(Get(data[i], "comments", Num(0)))],
                    counted)
        num_social_mentions == Cardinality(counted)
    IN IF num_social_mentions > 0
       THEN Ratio(total_engagement, num_social_mentions)
       ELSE Zero

\* Fault: the loop ends at the first reach that fails to parse.
ReachStopsAtFailure(data) ==
    LET val(i) == LET reach_val == Get(data[i], "reach", Num(0))
                  IN IF IsNa(reach_val) THEN Num(0) ELSE reach_val
        counted == {i \in 1..Len(data) : \A k \in 1..i : IntOk(val(k))}
    IN SumOver([i \in counted |-> IntVal(val(i))], counted)

\* reach: the sum of int(reach) over the records where it succeeds, NaN
\* being replaced by 0 first.
Reach(data) ==
    LET val(i) == LET reach_val == Get(data[i], "reach", Num(0))
                  IN IF IsNa(reach_val) THEN Num(0) ELSE reach_val
        counted == {i \in 1..Len(data) : IntOk(val(i))}
    IN SumOver([i \in counted |-> IntVal(val(i))], counted)

-----------------------------------------------------------------------------
(* The steps of one compute_kpis call.                                     *)

\* Fault: an empty input gets a zeroed summary instead of {}.
ReturnEmptyZeroed ==
    /\ pc = "call"
    /\ full_data = <<>>
    /\ kpis' = [sov |-> <<>>, mis |-> Num(0), mpi |-> Zero,
                engagement_rate |-> Zero, reach |-> 0]
    /\ pc' = "done"
    /\ UNCHANGED <<full_data, campaign_messages, brand, competitors, idx,
                   tones, themes, brand_counts, caller_vars>>

\* if not full_data: return {}
ReturnEmpty ==
    /\ pc = "call"
    /\ full_data = <<>>
    /\ kpis' = <<>>
    /\ pc' = "done"
    /\ UNCHANGED <<full_data, campaign_messages, brand, competitors, idx,
                   tones, themes, brand_counts, caller_vars>>

\* Fault: the accumulators of the loop survive from one call to the next.
BeginKeepingCounts ==
    /\ pc = "call"
    /\ full_data # <<>>
    /\ idx' = 1
    /\ pc' = "loop"
    /\ UNCHANGED <<full_data, campaign_messages, brand, competitors, kpis,
                   tones, themes, brand_counts, caller_vars>>

\* total_mentions, all_brands_list, tones, themes, brand_counts are set up.
Begin ==
    /\ pc = "call"
    /\ full_data # <<>>
    /\ tones' = <<>>
    /\ themes' = <<>>
    /\ brand_counts' = <<>>
    /\ idx' = 1
    /\ pc' = "loop"
    /\ UNCHANGED <<full_data, campaign_messages, brand, competitors, kpis,
                   caller_vars>>

\* One iteration of `for item in full_data`.
AnalyzeItem ==
    /\ pc = "loop"
    /\ idx <= Len(full_data)
    /\ LET item == full_data[idx]
           text == Get(item, "text", "")
           text_lower == Lower(text)
           sentiment == analyze_sentiment_keywords(text)
           theme == ThemeOf(text_lower)
           present_brands_in_item == PresentBrands(all_brands_list, text_lower)
       IN /\ \E mentioned \in Perms(present_brands_in_item) :
                full_data' = [full_data EXCEPT ![idx] =
                    Put(Put(Put(item, "sentiment", sentiment), "theme", theme),
                        "mentioned_brands", mentioned)]
          /\ tones' = Append(tones, sentiment)
          /\ themes' = Append(themes, theme)
          /\ brand_counts' = Bump(brand_counts, present_brands_in_item)
    /\ idx' = idx + 1
    /\ pc' = IF idx = Len(full_data) THEN "aggregate" ELSE "loop"
    /\ UNCHANGED <<campaign_messages, brand, competitors, kpis, caller_vars>>

\* Fault: mpi is left out of the summary when there is no campaign message.
SummaryOmittingMpi ==
    LET total_mentions == Len(full_data)
        full == [sentiment_ratio |-> RatioOf(tones, total_mentions),
                 theme_ratio |-> RatioOf(themes, total_mentions),
                 sov |-> Sov(all_brands_list, brand_counts),
                 mis |-> Mis(MisTerms(full_data)),
                 mpi |-> Mpi(full_data, campaign_messages),
                 engagement_rate |-> EngagementRate(full_data),
                 reach |-> Reach(full_data),
                 all_brands |-> all_brands_list,
                 analyzed_data |-> full_data]
    IN IF campaign_messages = <<>>
       THEN [k \in DOMAIN full \ {"mpi"} |-> full[k]]
       ELSE full

\* The dict of the return statement.
Summary ==
    LET total_mentions == Len(full_data)
    IN [sentiment_ratio |-> RatioOf(tones, total_mentions),
        theme_ratio |-> RatioOf(themes, total_mentions),
        sov |-> Sov(all_brands_list, brand_counts),
        mis |-> Mis(MisTerms(full_data)),
        mpi |-> Mpi(full_data, campaign_messages),
        engagement_rate |-> EngagementRate(full_data),
        reach |-> Reach(full_data),
        all_brands |-> all_brands_list,
        analyzed_data |-> full_data]

\* Everything after the loop, up to the return (or the exception sum() raises
\* on an authority that is not a number).
Aggregate ==
    /\ pc = "aggregate"
    /\ LET terms == MisTerms(full_data)
       IN IF \A i \in DOMAIN terms : Summable(terms[i])
          THEN /\ kpis' = Summary
               /\ pc' = "done"
          ELSE /\ kpis' = kpis
               /\ pc' = "raised"
    /\ UNCHANGED <<full_data, campaign_messages, brand, competitors, idx,
                   tones, themes, brand_counts, caller_vars>>

Next == ReturnEmpty \/ Begin \/ AnalyzeItem \/ Aggregate

\* The caller keeps the summary and calls compute_kpis a second time with the
\* same arguments, on the records the first call annotated.
CallAgain ==
    /\ pc = "done"
    /\ earlier = <<>>
    /\ earlier' = <<[summary |-> kpis,
                     order |-> [i \in 1..Len(full_data) |-> i],
                     annotated |-> TRUE]>>
    /\ pc' = "call"
    /\ UNCHANGED <<full_data, campaign_messages, brand, competitors, idx, tones,
                   themes, brand_counts, kpis, input, tokens, keywords, kw_pc,
                   app_vars>>

\* The caller keeps the summary and calls compute_kpis a second time with the
\* records it started from, in another order.
CallPermuted ==
    /\ pc = "done"
    /\ earlier = <<>>
    /\ \E order \in Perms(1..Len(input)) :
          /\ full_data' = [i \in 1..Len(input) |-> input[order[i]]]
          /\ earlier' = <<[summary |-> kpis, order |-> order, annotated |-> FALSE]>>
    /\ pc' = "call"
    /\ UNCHANGED <<campaign_messages, brand, competitors, idx, tones, themes,
                   brand_counts, kpis, input, tokens, keywords, kw_pc, app_vars>>

NextTwice ==
    ReturnEmpty \/ Begin \/ AnalyzeItem \/ Aggregate \/ CallAgain \/ CallPermuted

-----------------------------------------------------------------------------
(* extract_keywords                                                        *)

\* stop_words as the module sets it up: words of nltk's English stop word
\* list (an excerpt), then the words the module adds to it.
initial_stop_words ==
    {"the", "and", "for", "was", "with", "this", "that", "are", "from", "has",
     "have", "not", "but", "its", "our", "you", "all", "very", "too", "can"}
    \cup {"com", "www", "http", "https", "co", "uk", "amp", "rt", "via"}

generic_bank_words ==
    {"bank", "plc", "ltd", "group", "holdings", "zenith", "access", "gtco",
     "first", "cbn"}

\* dynamic_stop_words: brand.lower() and each c.lower() are added whole.
DynamicStopWords(b, comps) ==
    stop_words \cup {Lower(b)} \cup {Lower(comps[j]) : j \in 1..Len(comps)}
               \cup generic_bank_words

LetterChars == UpperChars \cup CharsOf(Lowers)

\* str.isalpha() on ASCII text
IsAlpha(t) == t # "" /\ \A i \in 1..Len(t) : CharAt(t, i) \in LetterChars

MinTokenLen == 3

\* [t for t in tokens if len(t) > 2 and t.isalpha() and t not in dynamic_stop_words]
FilteredTokens(toks, b, comps) ==
    LET dynamic_stop_words == DynamicStopWords(b, comps)
        Keep(t) == Len(t) >= MinTokenLen /\ IsAlpha(t) /\ t \notin dynamic_stop_words
    IN SelectSeq(toks, Keep)

\* The distinct elements of seq in the order of their first occurrence: the
\* key order of a dict filled by counting seq.
RECURSIVE Distinct(_)
Distinct(seq) ==
    IF seq = <<>> THEN <<>>
    ELSE LET before == Distinct(SubSeq(seq, 1, Len(seq) - 1))
             last == seq[Len(seq)]
         IN IF last \in RangeOf(before) THEN before ELSE Append(before, last)

\* FreqDist(seq).items(): <<element, count>> in key order.
FreqDistOf(seq) ==
    LET keys == Distinct(seq)
    IN [k \in 1..Len(keys) |->
          <<keys[k], Cardinality({i \in 1..Len(seq) : seq[i] = keys[k]})>>]

\* BigramCollocationFinder.from_words(words).ngram_fd: the adjacent pairs.
BigramsOf(words) == [i \in 1..(Len(words) - 1) |-> <<words[i], words[i + 1]>>]

MinBigramFreq == 2

\* Fault: the frequency filter is not applied.
BigramFreqUnfiltered(words) == FreqDistOf(BigramsOf(words))

\* finder.apply_freq_filter(2); finder.ngram_fd.items()
BigramFreq(words) ==
    LET AtLeastMin(entry) == entry[2] >= MinBigramFreq
    IN SelectSeq(FreqDistOf(BigramsOf(words)), AtLeastMin)

\* combined_freq.items(): the single words, then the phrases joined by a
\* blank.  (A joined phrase holds a blank and a token does not, so no key is
\* met twice.)
CombinedFreq(words) ==
    LET unigram_freq == FreqDistOf(words)
        bigram_freq == BigramFreq(words)
    IN unigram_freq
       \o [k \in 1..Len(bigram_freq) |->
             <<bigram_freq[k][1][1] \o " " \o bigram_freq[k][1][2], bigram_freq[k][2]>>]

TopN == 10

\* Fault: the first n entries of the table are returned, unsorted.
FirstEntries(table, n) ==
    SubSeq(table, 1, IF Len(table) < n THEN Len(table) ELSE n)

\* Counter.most_common(n): the entries by decreasing count, entries of equal
\* count in table order, cut after n.
MostCommon(table, n) ==
    LET Rank(i) == 1 + Cardinality({j \in 1..Len(table) :
                        \/ table[j][2] > table[i][2]
                        \/ table[j][2] = table[i][2] /\ j < i})
        size == IF Len(table) < n THEN Len(table) ELSE n
    IN [r \in 1..size |-> table[CHOOSE i \in 1..Len(table) : Rank(i) = r]]

\* The whole of extract_keywords, from the tokens on.
ExtractKeywords ==
    /\ kw_pc = "call"
    /\ keywords' = MostCommon(CombinedFreq(FilteredTokens(tokens, brand, competitors)),
                              TopN)
    /\ kw_pc' = "done"
    /\ UNCHANGED <<full_data, campaign_messages, brand, competitors, pc, idx,
                   tones, themes, brand_counts, kpis, input, earlier, tokens,
                   app_vars>>

-----------------------------------------------------------------------------
(* servicenow_integration.send_alert                                       *)

\* What send_alert does in environment e for recipient to_email: the calls
\* to the outside ("try_", "deliver_") and the lines printed, in order, and
\* whether an exception leaves the function.
\*   e.slack_token, e.smtp_creds : the settings are present
\*   e.smtp_port                 : the SMTP_PORT setting, "" when it is unset
\*   e.slack   : "ok" | "raises"           what chat_postMessage does
\*   e.smtp    : "ok" | "raises" | "quit_raises"
\*               what the SMTP session does: all calls succeed, a call before
\*               or at send_message raises, or only quit() raises
send_alert(e, to_email) ==
    LET slack == IF e.slack_token
                 THEN IF e.slack = "ok"
                      THEN <<"try_slack", "deliver_slack", "print_slack_sent">>
                      ELSE <<"try_slack", "print_slack_error">>
                 ELSE <<>>
        sent_by_slack == e.slack_token /\ e.slack = "ok"
        port_value == IF e.smtp_port = "" THEN Num(587) ELSE Str(e.smtp_port)
        email == IF e.smtp_creds
                 THEN IF e.smtp = "ok"
                      THEN <<"try_email", "deliver_email", "print_email_sent">>
                      ELSE IF e.smtp = "quit_raises"
                      THEN <<"try_email", "deliver_email", "print_email_error">>
                      ELSE <<"try_email", "print_email_error">>
                 ELSE <<>>
        sent_by_email == e.smtp_creds /\ e.smtp = "ok"
    IN IF ~sent_by_slack /\ to_email # ""
       THEN IF ~IntOk(port_value)
            THEN [events |-> slack, raised |-> TRUE]
            ELSE [events |-> slack \o email
                             \o (IF sent_by_email THEN <<>> ELSE <<"print_fallback">>),
                  raised |-> FALSE]
       ELSE [events |-> slack \o (IF sent_by_slack THEN <<>> ELSE <<"print_fallback">>),
             raised |-> FALSE]

\* A direct call of send_alert(msg, to_email = the recipient of the state).
SendAlert ==
    /\ run_pc = "alert"
    /\ LET result == send_alert(env, handled.to_email)
       IN /\ notified' = result.events
          /\ run_pc' = IF result.raised THEN "alert_raised" ELSE "alert_done"
    /\ UNCHANGED <<full_data, campaign_messages, brand, competitors, pc, idx,
                   tones, themes, brand_counts, kpis, input, earlier, tokens,
                   keywords, kw_pc, stop_words, session, handled,
                   original_stopwords, env>>

-----------------------------------------------------------------------------
(* demo_loader.load_data_from_csv                                          *)

\* App internal name -> possible user CSV names (all lowercase), in order.
column_map ==
    [date |-> <<"date">>,
     source |-> <<"source">>,
     text |-> <<"text", "mention text", "headline", "content">>,
     link |-> <<"link", "url">>,
     likes |-> <<"likes">>,
     comments |-> <<"comments">>,
     reach |-> <<"reach">>,
     authority |-> <<"authority">>,
     mentioned_brands |-> <<"mentioned_brands", "mentioned_brand">>]

required_for_analysis == {"text", "date", "source"}

\* The values of the optional KPI columns that were not found.
column_defaults ==
    [likes |-> Num(0), comments |-> Num(0), reach |-> Num(1000),
     authority |-> Num(5)]

\* The headers of the file, lowercase and stripped of spaces.
StandardColumns(file) ==
    [i \in 1..Len(file.columns) |-> Lower(Strip(file.columns[i]))]

\* The header of the file that feeds each internal name for which the file
\* has a column: the first possible user name that is a column.
MappedColumns(file) ==
    LET std == StandardColumns(file)
        found == {internal \in DOMAIN column_map :
                    \E j \in 1..Len(column_map[internal]) :
                        column_map[internal][j] \in RangeOf(std)}
    IN [internal \in found |->
          LET names == column_map[internal]
              j == CHOOSE j \in 1..Len(names) :
                       /\ names[j] \in RangeOf(std)
                       /\ \A h \in 1..(j - 1) : names[h] \notin RangeOf(std)
              i == CHOOSE i \in 1..Len(std) : std[i] = names[j]
          IN file.columns[i]]

\* The records load_data_from_csv returns for a file: [] when the file is
\* missing, cannot be read or lacks a required column.
load_data_from_csv(file) ==
    IF file.status # "ok" THEN <<>>
    ELSE LET mapped == MappedColumns(file)
         IN IF ~(required_for_analysis \subseteq DOMAIN mapped) THEN <<>>
            ELSE [r \in 1..Len(file.rows) |->
                    [k \in DOMAIN mapped \cup DOMAIN column_defaults |->
                        IF k \in DOMAIN mapped
                        THEN file.rows[r][mapped[k]]
                        ELSE column_defaults[k]]]

-----------------------------------------------------------------------------
(* The pages: app.py and pages/dashboard.py.  One action is one rerun of   *)
(* the script on a user event; the analysis run is cut into its calls.     *)

None == [t |-> "none"]

\* The bytes of a report file, named by what they were built from.
Bytes(kind, content) == [t |-> "bytes", kind |-> kind, of |-> content]

LoggedIn == Get(session, "logged_in", FALSE)

\* # --- Init State --- of the dashboard: a key is set when it is absent.
StateDefaults ==
    [full_data |-> <<>>, kpis |-> <<>>, top_keywords |-> <<>>,
     report_generated |-> FALSE, pdf_report_bytes |-> None,
     excel_report_bytes |-> None, ai_summary_text |-> ""]

InitState(state) ==
    [k \in DOMAIN state \cup DOMAIN StateDefaults |->
        IF k \in DOMAIN state THEN state[k] ELSE StateDefaults[k]]

\* The seven keys are set to their empty values.
Cleared(state) ==
    [k \in DOMAIN state \cup DOMAIN StateDefaults |->
        IF k \in DOMAIN StateDefaults THEN StateDefaults[k] ELSE state[k]]

engine_vars == <<full_data, campaign_messages, brand, competitors, pc, idx,
                 tones, themes, brand_counts, kpis, input, earlier,
                 tokens, keywords, kw_pc>>

\* Fault: any password is accepted for the user zenith.
SubmitLoginAnyPassword(username, password) ==
    /\ run_pc = "idle"
    /\ ~LoggedIn
    /\ IF username = "zenith"
       THEN /\ session' = InitState(Put(Put(session, "logged_in", TRUE),
                                        "username", username))
            /\ handled' = [event |-> "login", ok |-> TRUE,
                           username |-> username, password |-> password]
       ELSE /\ session' = session
            /\ handled' = [event |-> "login", ok |-> FALSE,
                           username |-> username, password |-> password]
    /\ UNCHANGED <<engine_vars, stop_words, run_pc, notified,
                   original_stopwords, env>>

\* app.login_form is submitted; on success the rerun switches to the
\* dashboard, whose first run sets the absent keys.
SubmitLogin(username, password) ==
    /\ run_pc = "idle"
    /\ ~LoggedIn
    /\ IF username = "zenith" /\ password = "pass"
       THEN /\ session' = InitState(Put(Put(session, "logged_in", TRUE),
                                        "username", username))
            /\ handled' = [event |-> "login", ok |-> TRUE,
                           username |-> username, password |-> password]
       ELSE /\ session' = session
            /\ handled' = [event |-> "login", ok |-> FALSE,
                           username |-> username, password |-> password]
    /\ UNCHANGED <<engine_vars, stop_words, run_pc, notified,
                   original_stopwords, env>>

\* The dashboard page is opened without a login: st.error, st.stop().
VisitDashboard ==
    /\ run_pc = "idle"
    /\ ~LoggedIn
    /\ handled' = [event |-> "refused"]
    /\ UNCHANGED <<engine_vars, stop_words, session, run_pc, notified,
                   original_stopwords, env>>

\* Fault: the report survives the logout.
LogoutKeepingReport ==
    /\ run_pc = "idle"
    /\ LoggedIn
    /\ session' = Put(Put(session, "logged_in", FALSE), "username", "")
    /\ handled' = [event |-> "logout"]
    /\ UNCHANGED <<engine_vars, stop_words, run_pc, notified,
                   original_stopwords, env>>

\* The Logout button of the sidebar.
Logout ==
    /\ run_pc = "idle"
    /\ LoggedIn
    /\ session' = Cleared(Put(Put(session, "logged_in", FALSE), "username", ""))
    /\ handled' = [event |-> "logout"]
    /\ UNCHANGED <<engine_vars, stop_words, run_pc, notified,
                   original_stopwords, env>>

\* Fault: the run goes on with the empty list the loader returned.
ClickRunAnalysisWithoutStop(setting) ==
    /\ run_pc = "idle"
    /\ LoggedIn
    /\ session' = Cleared(session)
    /\ notified' = <<>>
    /\ brand' = setting.brand
    /\ competitors' = setting.competitors
    /\ campaign_messages' = setting.campaign_messages
    /\ LET loaded == load_data_from_csv(env.data_file)
       IN /\ handled' = [event |-> "run", loaded |-> loaded # <<>>]
          /\ full_data' = loaded
          /\ input' = loaded
          /\ pc' = "call"
          /\ run_pc' = "compute_kpis"
    /\ idx' = 0
    /\ tones' = <<>>
    /\ themes' = <<>>
    /\ brand_counts' = <<>>
    /\ kpis' = <<>>
    /\ tokens' = <<>>
    /\ keywords' = <<>>
    /\ kw_pc' = "idle"
    /\ UNCHANGED <<earlier, stop_words, original_stopwords, env>>

\* The Run Analysis button: the seven keys are reset, then
\* run_analysis_from_demo loads the data and, when there is none, stops the
\* script; otherwise it calls compute_kpis.
ClickRunAnalysis(setting) ==
    /\ run_pc = "idle"
    /\ LoggedIn
    /\ session' = Cleared(session)
    /\ notified' = <<>>
    /\ brand' = setting.brand
    /\ competitors' = setting.competitors
    /\ campaign_messages' = setting.campaign_messages
    /\ LET loaded == load_data_from_csv(env.data_file)
       IN /\ handled' = [event |-> "run", loaded |-> loaded # <<>>]
          /\ full_data' = loaded
          /\ input' = loaded
          /\ IF loaded = <<>>
             THEN pc' = "idle" /\ run_pc' = "idle"
             ELSE pc' = "call" /\ run_pc' = "compute_kpis"
    /\ idx' = 0
    /\ tones' = <<>>
    /\ themes' = <<>>
    /\ brand_counts' = <<>>
    /\ kpis' = <<>>
    /\ tokens' = <<>>
    /\ keywords' = <<>>
    /\ kw_pc' = "idle"
    /\ UNCHANGED <<earlier, stop_words, original_stopwords, env>>

\* " ".join(texts)
RECURSIVE JoinBlank(_)
JoinBlank(texts) ==
    IF texts = <<>> THEN ""
    ELSE IF Len(texts) = 1 THEN texts[1]
    ELSE texts[1] \o " " \o JoinBlank(Tail(texts))

\* nltk.word_tokenize on a text of words and blanks: the words in order.
WordTokenize(s) ==
    LET n == Len(s)
        IsStart(i) == CharAt(s, i) # " " /\ (i = 1 \/ CharAt(s, i - 1) = " ")
        starts == {i \in 1..n : IsStart(i)}
        EndOf(i) == CHOOSE j \in i..n :
                        /\ \A k \in i..j : CharAt(s, k) # " "
                        /\ j = n \/ CharAt(s, j + 1) = " "
        Nth(r) == CHOOSE i \in starts : Cardinality({x \in starts : x < i}) = r - 1
    IN [r \in 1..Cardinality(starts) |-> SubSeq(s, Nth(r), EndOf(Nth(r)))]

\* compute_kpis returned: kpis and full_data are stored, the stop words are
\* swapped for a copy holding the names, and extract_keywords is called.
KpisReturned ==
    /\ run_pc = "compute_kpis"
    /\ pc = "done"
    /\ LET analyzed == Get(kpis, "analyzed_data", <<>>)
           all_text == JoinBlank([i \in 1..Len(analyzed) |->
                                     Get(analyzed[i], "text", "")])
           temp_stop_words == stop_words \cup {Lower(brand)}
                              \cup {Lower(competitors[i]) : i \in 1..Len(competitors)}
       IN /\ session' = Put(Put(session, "kpis", kpis), "full_data", analyzed)
          /\ original_stopwords' = stop_words
          /\ stop_words' = temp_stop_words
          /\ tokens' = WordTokenize(Lower(all_text))
    /\ kw_pc' = "call"
    /\ run_pc' = "extract_keywords"
    /\ pc' = "idle"
    /\ UNCHANGED <<full_data, campaign_messages, brand, competitors, idx,
                   tones, themes, brand_counts, kpis, input, earlier,
                   keywords, handled, notified, env>>

\* compute_kpis raised: the except clause of run_analysis_from_demo reports
\* the error and the run is over.
KpisRaised ==
    /\ run_pc = "compute_kpis"
    /\ pc = "raised"
    /\ handled' = [event |-> "run", loaded |-> TRUE, failed |-> "compute_kpis"]
    /\ run_pc' = "idle"
    /\ pc' = "idle"
    /\ UNCHANGED <<full_data, campaign_messages, brand, competitors, idx,
                   tones, themes, brand_counts, kpis, input, earlier,
                   tokens, keywords, kw_pc, stop_words, session, notified,
                   original_stopwords, env>>

\* extract_keywords raises (nltk raises LookupError when a resource it needs
\* cannot be found).
ExtractRaises ==
    /\ kw_pc = "call"
    /\ kw_pc' = "raised"
    /\ UNCHANGED <<full_data, campaign_messages, brand, competitors, pc, idx,
                   tones, themes, brand_counts, kpis, input, earlier, tokens,
                   keywords, app_vars>>

AlertLimit == 30

DefaultAlertEmail == "alerts@yourcompany.com"

\* neg_pct > 30, for neg_pct the sum of the 'negative' and 'anger' ratios.
NegPctOver(sentiment_ratio, limit) ==
    LET negative == Get(sentiment_ratio, "negative", Zero)
        anger == Get(sentiment_ratio, "anger", Zero)
    IN negative.num * anger.den + anger.num * negative.den
           > limit * negative.den * anger.den

\* extract_keywords returned: the stop words are put back, the keywords are
\* stored, and above the limit the alert is sent and the ticket created.
KeywordsReturned ==
    /\ run_pc = "extract_keywords"
    /\ kw_pc = "done"
    /\ stop_words' = original_stopwords
    /\ session' = Put(session, "top_keywords", keywords)
    /\ IF NegPctOver(Get(session.kpis, "sentiment_ratio", <<>>), AlertLimit)
       THEN LET result == send_alert(env, DefaultAlertEmail)
            IN IF result.raised
               THEN /\ notified' = <<"send_alert">> \o result.events
                    /\ handled' = [event |-> "run", loaded |-> TRUE,
                                   failed |-> "send_alert"]
               ELSE /\ notified' = <<"send_alert">> \o result.events
                                   \o <<"create_servicenow_ticket">>
                    /\ handled' = [event |-> "run", loaded |-> TRUE,
                                   failed |-> "nothing"]
       ELSE /\ notified' = <<>>
            /\ handled' = [event |-> "run", loaded |-> TRUE, failed |-> "nothing"]
    /\ run_pc' = "idle"
    /\ kw_pc' = "idle"
    /\ UNCHANGED <<full_data, campaign_messages, brand, competitors, pc, idx,
                   tones, themes, brand_counts, kpis, input, earlier, tokens,
                   keywords, original_stopwords, env>>

\* extract_keywords raised: the except clause reports the error; the line
\* that puts the stop words back is skipped.
KeywordsRaised ==
    /\ run_pc = "extract_keywords"
    /\ kw_pc = "raised"
    /\ handled' = [event |-> "run", loaded |-> TRUE, failed |-> "extract_keywords"]
    /\ run_pc' = "idle"
    /\ kw_pc' = "idle"
    /\ UNCHANGED <<full_data, campaign_messages, brand, competitors, pc, idx,
                   tones, themes, brand_counts, kpis, input, earlier, tokens,
                   keywords, stop_words, session, notified,
                   original_stopwords, env>>

AiSummary == "summary"

\* Fault: the report counts as generated once the PDF is built.
ClickGenerateOnPdfAlone ==
    /\ run_pc = "idle"
    /\ LoggedIn
    /\ session.kpis # <<>>
    /\ \E pdf_generated \in BOOLEAN, excel_generated \in BOOLEAN :
          LET with_summary == Put(Put(session, "report_generated", FALSE),
                                  "ai_summary_text", AiSummary)
              with_pdf == IF pdf_generated
                          THEN Put(with_summary, "pdf_report_bytes",
                                   Bytes("pdf", session.kpis))
                          ELSE with_summary
              with_excel == IF excel_generated
                            THEN Put(with_pdf, "excel_report_bytes",
                                     Bytes("excel", session.full_data))
                            ELSE with_pdf
          IN /\ session' = Put(with_excel, "report_generated", pdf_generated)
             /\ handled' = [event |-> "generate", pdf_generated |-> pdf_generated,
                            excel_generated |-> excel_generated]
    /\ UNCHANGED <<engine_vars, stop_words, run_pc, notified,
                   original_stopwords, env>>

\* The Generate Reports button, shown once there are kpis; either build may
\* raise, and the exception is reported.
ClickGenerate ==
    /\ run_pc = "idle"
    /\ LoggedIn
    /\ session.kpis # <<>>
    /\ IF session.full_data = <<>>
       THEN /\ session' = Put(session, "report_generated", FALSE)
            /\ handled' = [event |-> "generate", pdf_generated |-> FALSE,
                           excel_generated |-> FALSE]
       ELSE \E pdf_generated \in BOOLEAN, excel_generated \in BOOLEAN :
          LET with_summary == Put(Put(session, "report_generated", FALSE),
                                  "ai_summary_text", AiSummary)
              with_pdf == IF pdf_generated
                          THEN Put(with_summary, "pdf_report_bytes",
                                   Bytes("pdf", session.kpis))
                          ELSE with_summary
              with_excel == IF excel_generated
                            THEN Put(with_pdf, "excel_report_bytes",
                                     Bytes("excel", session.full_data))
                            ELSE with_pdf
          IN /\ session' = Put(with_excel, "report_generated",
                               pdf_generated /\ excel_generated)
             /\ handled' = [event |-> "generate", pdf_generated |-> pdf_generated,
                            excel_generated |-> excel_generated]
    /\ UNCHANGED <<engine_vars, stop_words, run_pc, notified,
                   original_stopwords, env>>

\* A download button, or the Email Reports button, of a generated report.
TakeReport(how) ==
    /\ run_pc = "idle"
    /\ LoggedIn
    /\ session.kpis # <<>>
    /\ session.report_generated
    /\ how = "download_pdf" => session.pdf_report_bytes # None
    /\ how = "download_excel" => session.excel_report_bytes # None
    /\ how = "email" => /\ session.pdf_report_bytes # None
                        /\ session.excel_report_bytes # None
    /\ handled' = [event |-> how,
                   files |-> IF how = "download_pdf"
                             THEN <<session.pdf_report_bytes>>
                             ELSE IF how = "download_excel"
                             THEN <<session.excel_report_bytes>>
                             ELSE <<session.pdf_report_bytes,
                                    session.excel_report_bytes>>]
    /\ UNCHANGED <<engine_vars, stop_words, session, run_pc, notified,
                   original_stopwords, env>>

-----------------------------------------------------------------------------
(* The calls explored: three families of arguments.                        *)

MaxFrags == 3
MaxRecords == 2
MaxCompetitors == 2

DefaultBrand == "Zenith Bank"
DefaultCompetitors == <<"Fidelity Bank", "GT Bank", "Opay">>
DefaultCampaign == <<"Zecathon", "Zecathon 5.0">>

\* Sequences over S of length at most n.
RECURSIVE SeqsUpTo(_, _)
SeqsUpTo(S, n) ==
    IF n = 0 THEN {<<>>}
    ELSE LET prev == SeqsUpTo(S, n - 1)
         IN prev \cup {Append(q, x) : q \in prev, x \in S}

Fragments == {"good", "but ", "mad ", "thanks ", "worst!", " ", "CEO ",
              "fraud ", "app", "csr "}

\* Concatenations of at most n fragments.
RECURSIVE TextsUpTo(_)
TextsUpTo(n) ==
    IF n = 0 THEN {""}
    ELSE LET prev == TextsUpTo(n - 1)
         IN prev \cup {t \o f : t \in prev, f \in Fragments}

Texts == TextsUpTo(MaxFrags)

\* No page of the application is running: the engine is called directly.
NoApp ==
    /\ stop_words = initial_stop_words
    /\ session = <<>>
    /\ run_pc = "off"
    /\ handled = [event |-> "none"]
    /\ notified = <<>>
    /\ original_stopwords = {}
    /\ env = <<>>

Start ==
    /\ pc = "call"
    /\ idx = 0
    /\ tones = <<>>
    /\ themes = <<>>
    /\ brand_counts = <<>>
    /\ kpis = <<>>
    /\ input = full_data
    /\ earlier = <<>>
    /\ tokens = <<>>
    /\ keywords = <<>>
    /\ kw_pc = "idle"
    /\ NoApp

\* One record with any text of Texts (or no text field), default settings.
InitText ==
    /\ full_data \in {<<>>, <<[date |-> "2025-10-01"]>>}
                     \cup {<<[text |-> t]>> : t \in Texts}
    /\ brand = DefaultBrand
    /\ competitors = DefaultCompetitors
    /\ campaign_messages = DefaultCampaign
    /\ Start

KpiTexts == {"", "good", "sad news", "thanks Zecathon", "ZECATHON 5.0 app"}

KpiRecords ==
    {[text |-> t] : t \in KpiTexts}
    \cup {[text |-> t, authority |-> Num(2)] : t \in KpiTexts}
    \cup {[date |-> "2025-10-01"]}

CampaignLists == {<<>>, <<"Zecathon">>, DefaultCampaign, <<"5.0", "GOOD">>}

\* Several records with an authority, any campaign message list.
InitKpi ==
    /\ full_data \in SeqsUpTo(KpiRecords, MaxRecords)
    /\ brand = DefaultBrand
    /\ competitors = DefaultCompetitors
    /\ campaign_messages \in CampaignLists
    /\ Start

Names == {"Zenith Bank", "Opay", "Access Plc."}

BrandTexts == {"OPAY beats opay", "Opays", "Zenith Bank and Opay",
               "Access Plc. grows"}

\* Any brand and competitor list over Names, several records.
InitBrand ==
    /\ full_data \in SeqsUpTo({[text |-> t] : t \in BrandTexts}, MaxRecords)
    /\ brand \in Names
    /\ competitors \in SeqsUpTo(Names, MaxCompetitors)
    /\ campaign_messages = <<>>
    /\ Start

Init == InitText \/ InitKpi \/ InitBrand

Spec == Init /\ [][Next]_vars

\* Records of a social source with well-formed and malformed likes/comments,
\* and records of a source that carries no social marker.
EngagementMenu ==
    {[source |-> "Twitter", likes |-> l, comments |-> c] :
        l \in {Num(10), Str("n/a"), Str("12")}, c \in {Num(5), NaN}}
    \cup {[source |-> "Twitter", likes |-> l] :
        l \in {Num(10), Str("n/a"), Str("12")}}
    \cup {[source |-> "Twitter", comments |-> c] : c \in {Num(5), NaN}}
    \cup {[source |-> "Daily Press", likes |-> Num(10), comments |-> Num(5)],
          [likes |-> Num(7)]}

\* Records with a well-formed, missing or malformed reach.
ReachMenu ==
    {[text |-> "news"]}
    \cup {[text |-> "news", reach |-> r] :
          r \in {Num(500), Str("not a number"), NaN, Str("250")}}

\* Records with a well-formed, missing or malformed authority.
AuthorityMenu ==
    {[text |-> t, authority |-> a] :
        t \in {"good", "sad news"}, a \in {Num(2), Str("high"), NaN}}
    \cup {[text |-> "good", source |-> "Twitter", likes |-> Num(10),
           comments |-> Str("n/a"), reach |-> Str("not a number"),
           authority |-> Num(2)]}

\* Several records whose numeric fields may be malformed, default settings.
InitFields ==
    /\ full_data \in SeqsUpTo(EngagementMenu \cup ReachMenu \cup AuthorityMenu,
                               MaxRecords)
    /\ brand = DefaultBrand
    /\ competitors = DefaultCompetitors
    /\ campaign_messages = DefaultCampaign
    /\ Start

SpecFields == InitFields /\ [][Next]_vars

\* Records that differ in every field the summary reads.
TwiceMenu ==
    {[text |-> "Zenith Bank and Opay good app", source |-> "Twitter",
      likes |-> Num(10), comments |-> Num(5), reach |-> Num(500),
      authority |-> Num(2)],
     [text |-> "sad news"],
     [text |-> "thanks Zecathon", source |-> "Twitter", likes |-> Str("n/a"),
      reach |-> Str("not a number")],
     [text |-> "Opay fraud", source |-> "fb", likes |-> Num(3),
      authority |-> Num(3), reach |-> NaN]}

\* Several records, default settings; the caller may call twice.
InitTwice ==
    /\ full_data \in SeqsUpTo(TwiceMenu, MaxRecords)
    /\ brand = DefaultBrand
    /\ competitors = DefaultCompetitors
    /\ campaign_messages = DefaultCampaign
    /\ Start

SpecTwice == InitTwice /\ [][NextTwice]_vars

MaxChunks == 3

\* Pieces of tokenized text: kept words, stop words, brand words, a number.
Chunks ==
    {<<"mobile", "banking", "app">>,
     <<"loan", "the", "rate">>,
     <<"zenith", "opay", "5.0", "ok">>,
     <<"customer", "service", "award", "ceremony">>,
     <<"fraud", "alert", "issued", "today", "lagos">>,
     <<"fidelity", "bank", "news">>,
     <<"app">>}

\* The concatenations of at most n chunks.
RECURSIVE CorporaUpTo(_)
CorporaUpTo(n) ==
    IF n = 0 THEN {<<>>}
    ELSE LET prev == CorporaUpTo(n - 1)
         IN prev \cup {c \o chunk : c \in prev, chunk \in Chunks}

\* Brand and competitors: the defaults, and one-word names.
KeywordSettings ==
    {[brand |-> DefaultBrand, competitors |-> DefaultCompetitors],
     [brand |-> "Opay", competitors |-> <<"Fidelity">>]}

\* extract_keywords is called on a tokenized corpus.
InitKeywords ==
    /\ tokens \in CorporaUpTo(MaxChunks)
    /\ keywords = <<>>
    /\ kw_pc = "call"
    /\ \E setting \in KeywordSettings :
          /\ brand = setting.brand
          /\ competitors = setting.competitors
    /\ campaign_messages = DefaultCampaign
    /\ full_data = <<>>
    /\ input = <<>>
    /\ earlier = <<>>
    /\ pc = "idle"
    /\ idx = 0
    /\ tones = <<>>
    /\ themes = <<>>
    /\ brand_counts = <<>>
    /\ kpis = <<>>
    /\ NoApp

NextKeywords == ExtractKeywords

SpecKeywords == InitKeywords /\ [][NextKeywords]_vars

\* The environments of send_alert.
AlertEnvs ==
    [slack_token : BOOLEAN, slack : {"ok", "raises"},
     smtp_creds : BOOLEAN, smtp_port : {"", "465", "abc"},
     smtp : {"ok", "raises", "quit_raises"}]

\* send_alert is called in any environment, with or without a recipient.
InitAlert ==
    /\ env \in AlertEnvs
    /\ handled \in {[event |-> "send_alert", to_email |-> to] :
                       to \in {"", "alerts@yourcompany.com"}}
    /\ run_pc = "alert"
    /\ notified = <<>>
    /\ stop_words = initial_stop_words
    /\ original_stopwords = {}
    /\ session = <<>>
    /\ tokens = <<>>
    /\ keywords = <<>>
    /\ kw_pc = "idle"
    /\ brand = DefaultBrand
    /\ competitors = DefaultCompetitors
    /\ campaign_messages = DefaultCampaign
    /\ full_data = <<>>
    /\ input = <<>>
    /\ earlier = <<>>
    /\ pc = "idle"
    /\ idx = 0
    /\ tones = <<>>
    /\ themes = <<>>
    /\ brand_counts = <<>>
    /\ kpis = <<>>

NextAlert == SendAlert

SpecAlert == InitAlert /\ [][NextAlert]_vars

\* The demo data files: absent, unreadable, lacking a required column, a table
\* without rows, and tables with rows.
Row(date, source, text) == [date |-> date, source |-> source, text |-> text]

CalmFile ==
    [status |-> "ok", columns |-> <<" Date", "SOURCE", "Headline">>,
     rows |-> <<(" Date" :> "2025-10-01" @@ "SOURCE" :> "blog"
                 @@ "Headline" :> "good news"),
                (" Date" :> "2025-10-02" @@ "SOURCE" :> "fb"
                 @@ "Headline" :> "new app")>>]

CrisisFile ==
    [status |-> "ok",
     columns |-> <<"date", "source", "Mention Text", "Likes", "Reach">>,
     rows |-> <<("date" :> "2025-10-01" @@ "source" :> "fb"
                 @@ "Mention Text" :> "angry users"
                 @@ "Likes" :> Num(3) @@ "Reach" :> Num(50)),
                ("date" :> "2025-10-02" @@ "source" :> "blog"
                 @@ "Mention Text" :> "fidelity app"
                 @@ "Likes" :> Num(0) @@ "Reach" :> Num(70))>>]

\* Ten records, two of them negative and one angry: 30 percent exactly.
AtLimitFile ==
    [status |-> "ok", columns |-> <<"date", "source", "text">>,
     rows |-> [i \in 1..10 |->
                 Row("2025-10-01", "blog",
                     IF i <= 2 THEN "bad service"
                     ELSE IF i = 3 THEN "angry users" ELSE "new app")]]

BadAuthorityFile ==
    [status |-> "ok", columns |-> <<"date", "source", "text", "authority">>,
     rows |-> <<("date" :> "2025-10-01" @@ "source" :> "blog"
                 @@ "text" :> "good news" @@ "authority" :> Str("high"))>>]

DemoFiles ==
    {[status |-> "missing"],
     [status |-> "unreadable"],
     [status |-> "ok", columns |-> <<"Date", "Text">>,
      rows |-> <<("Date" :> "2025-10-01" @@ "Text" :> "good news")>>],
     [status |-> "ok", columns |-> <<"date", "source", "text">>, rows |-> <<>>],
     CalmFile, CrisisFile, AtLimitFile, BadAuthorityFile}

\* The environments of a session: no channel set up, Slack working, an
\* SMTP_PORT that is not a number, Slack failing with email working.
SessionAlertEnvs ==
    {[slack_token |-> FALSE, slack |-> "ok", smtp_creds |-> FALSE,
      smtp_port |-> "", smtp |-> "ok"],
     [slack_token |-> TRUE, slack |-> "ok", smtp_creds |-> TRUE,
      smtp_port |-> "", smtp |-> "ok"],
     [slack_token |-> FALSE, slack |-> "ok", smtp_creds |-> FALSE,
      smtp_port |-> "abc", smtp |-> "ok"],
     [slack_token |-> TRUE, slack |-> "raises", smtp_creds |-> TRUE,
      smtp_port |-> "465", smtp |-> "ok"]}

RunSettings ==
    {[brand |-> DefaultBrand, competitors |-> DefaultCompetitors,
      campaign_messages |-> DefaultCampaign],
     [brand |-> "Opay", competitors |-> <<"Fidelity">>,
      campaign_messages |-> <<>>]}

Usernames == {"zenith", "admin"}

Passwords == {"pass", "Pass"}

\* A browser session opens on the login page.
InitSession ==
    /\ env \in {Put(e, "data_file", file) : e \in SessionAlertEnvs, file \in DemoFiles}
    /\ session = [logged_in |-> FALSE]
    /\ run_pc = "idle"
    /\ handled = [event |-> "none"]
    /\ notified = <<>>
    /\ stop_words = initial_stop_words
    /\ original_stopwords = {}
    /\ brand = DefaultBrand
    /\ competitors = DefaultCompetitors
    /\ campaign_messages = DefaultCampaign
    /\ full_data = <<>>
    /\ input = <<>>
    /\ earlier = <<>>
    /\ pc = "idle"
    /\ idx = 0
    /\ tones = <<>>
    /\ themes = <<>>
    /\ brand_counts = <<>>
    /\ kpis = <<>>
    /\ tokens = <<>>
    /\ keywords = <<>>
    /\ kw_pc = "idle"

NextSession ==
    \/ \E username \in Usernames, password \in Passwords :
          SubmitLogin(username, password)
    \/ VisitDashboard
    \/ Logout
    \/ \E setting \in RunSettings : ClickRunAnalysis(setting)
    \/ Begin
    \/ AnalyzeItem
    \/ Aggregate
    \/ KpisReturned
    \/ KpisRaised
    \/ ExtractKeywords
    \/ ExtractRaises
    \/ KeywordsReturned
    \/ KeywordsRaised
    \/ ClickGenerate
    \/ \E how \in {"download_pdf", "download_excel", "email"} : TakeReport(how)

SpecSession == InitSession /\ [][NextSession]_vars


-----------------------------------------------------------------------------
(* Vocabulary of the properties.                                           *)

\* compute_kpis has returned a summary for a non-empty input.
Returned == pc = "done" /\ full_data # <<>>

\* The text the engine reads from a record.
TextOf(item) == IF "text" \in DOMAIN item THEN item.text ELSE ""

\* k occurs in s as a whole word: an occurrence that is not glued to a word
\* character on a side where k itself begins or ends with a word character.
OccursAsWord(k, s) ==
    \E i \in 1..(Len(s) - Len(k) + 1) :
        /\ SubSeq(s, i, i + Len(k) - 1) = k
        /\ \/ ~IsWordChar(CharAt(k, 1))
           \/ i = 1
           \/ ~IsWordChar(CharAt(s, i - 1))
        /\ \/ ~IsWordChar(CharAt(k, Len(k)))
           \/ i + Len(k) - 1 = Len(s)
           \/ ~IsWordChar(CharAt(s, i + Len(k)))

\* Some keyword of kws is present in the text, case-insensitively.
HasKeyword(kws, text) ==
    LET lowered == Lower(text)
    IN \E j \in 1..Len(kws) : OccursAsWord(kws[j], lowered)

MixedRule(text) ==
    \/ HasKeyword(positive_kws, text) /\ HasKeyword(negative_kws, text)
    \/ /\ HasKeyword(mixed_kws, text)
       /\ HasKeyword(positive_kws, text) \/ HasKeyword(negative_kws, text)

\* The sum of the rationals of f over its domain equals 100.
SumsTo100(f) ==
    \E d \in {f[x].den : x \in DOMAIN f} :
        /\ \A x \in DOMAIN f : f[x].den = d
        /\ SumOver([x \in DOMAIN f |-> f[x].num], DOMAIN f) = 100 * d

\* The names stored on a record by the engine.
MentionedIn(item) == RangeOf(item.mentioned_brands)

-----------------------------------------------------------------------------
\* C1: for every non-empty record collection the values of the returned
\* sentiment_ratio sum to 100: every value is a count over the number of
\* records, and the counts add up to the number of records.
C1_SentimentRatioSumsTo100 ==
    Returned =>
        /\ SumsTo100(kpis.sentiment_ratio)
        /\ \A l \in DOMAIN kpis.sentiment_ratio :
              kpis.sentiment_ratio[l].den = Len(full_data)

C1_Witness ==
    /\ Returned
    /\ Len(full_data) >= 2
    /\ Cardinality(DOMAIN kpis.sentiment_ratio) >= 2

\* C2: for every non-empty record collection and every brand/competitor list,
\* the sov values sum to 100 if some name is mentioned in some record, and are
\* all 0 if no name is mentioned in any record.
C2_SovSumsTo100 ==
    Returned =>
        IF \E i \in 1..Len(full_data) : MentionedIn(full_data[i]) # {}
        THEN SumsTo100(kpis.sov)
        ELSE \A j \in 1..Len(kpis.sov) : kpis.sov[j].num = 0

\* C3: sov has one entry per element of [brand] + competitors, in that order;
\* sov[j] is the mention count of the j-th name over the total mention count,
\* times 100; all_brands is [brand] + competitors.
C3_SovAlignedWithBrands ==
    Returned =>
        LET names == <<brand>> \o competitors
            count(n) == Cardinality({i \in 1..Len(full_data) :
                                        n \in MentionedIn(full_data[i])})
            total == SumOver([i \in 1..Len(full_data) |->
                                 Cardinality(MentionedIn(full_data[i]))],
                             1..Len(full_data))
        IN /\ kpis.all_brands = names
           /\ Len(kpis.sov) = Len(names)
           /\ \A j \in 1..Len(names) :
                 IF total > 0
                 THEN kpis.sov[j].num * total = 100 * count(names[j]) * kpis.sov[j].den
                 ELSE kpis.sov[j].num = 0

C3_Witness ==
    /\ Returned
    /\ Len(kpis.sov) >= 3
    /\ \E j, k \in 1..Len(kpis.sov) :
          /\ j < k
          /\ kpis.sov[j].num > 0
          /\ kpis.sov[k].num > kpis.sov[j].num

\* C4: the rules are applied in the precedence anger > mixed > negative >
\* positive > appreciation: for every non-empty text an anger keyword yields
\* 'anger'; otherwise the mixed rule yields 'mixed'; otherwise a negative
\* keyword yields 'negative'; otherwise a positive keyword yields 'positive';
\* otherwise an appreciation keyword yields 'appreciation'.
C4_SentimentPrecedence ==
    Returned =>
        \A i \in 1..Len(full_data) :
            LET text == TextOf(full_data[i])
                sentiment == full_data[i].sentiment
            IN text # "" =>
                IF HasKeyword(anger_kws, text) THEN sentiment = "anger"
                ELSE IF MixedRule(text) THEN sentiment = "mixed"
                ELSE IF HasKeyword(negative_kws, text) THEN sentiment = "negative"
                ELSE IF HasKeyword(positive_kws, text) THEN sentiment = "positive"
                ELSE IF HasKeyword(appreciation_kws, text)
                     THEN sentiment = "appreciation"
                ELSE TRUE

\* C5: for every text without an anger keyword the result is 'mixed' exactly
\* when a positive and a negative keyword are both present, or a connective
\* is present together with a positive or a negative keyword.
C5_MixedRule ==
    Returned =>
        \A i \in 1..Len(full_data) :
            LET text == TextOf(full_data[i])
            IN ~HasKeyword(anger_kws, text) =>
                  (full_data[i].sentiment = "mixed" <=> MixedRule(text))

C5_Witness ==
    /\ Returned
    /\ \E i \in 1..Len(full_data) :
          LET text == TextOf(full_data[i])
          IN /\ full_data[i].sentiment = "mixed"
             /\ HasKeyword(mixed_kws, text)
             /\ HasKeyword(positive_kws, text)
             /\ ~HasKeyword(negative_kws, text)

\* C6: empty or missing text is 'neutral'; a non-empty text is 'neutral'
\* exactly when it holds no anger, positive, negative or appreciation keyword
\* (a connective alone changes nothing); a record without a text field is
\* labelled 'neutral'.
C6_NeutralFallback ==
    Returned =>
        \A i \in 1..Len(full_data) :
            LET text == TextOf(full_data[i])
                sentiment == full_data[i].sentiment
            IN IF text = ""
               THEN sentiment = "neutral"
               ELSE sentiment = "neutral" <=>
                       ~(\/ HasKeyword(anger_kws, text)
                         \/ HasKeyword(positive_kws, text)
                         \/ HasKeyword(negative_kws, text)
                         \/ HasKeyword(appreciation_kws, text))

C6_Witness ==
    /\ Returned
    /\ \E i \in 1..Len(full_data) :
          /\ TextOf(full_data[i]) # ""
          /\ HasKeyword(mixed_kws, TextOf(full_data[i]))
          /\ full_data[i].sentiment = "neutral"

\* C7: every record gets the theme of the first category, in the order
\* CSR/ESG, Corporate, Partnership/Sponsorship, Product/Service, Legal/Risk,
\* with a keyword that is a substring of the lowercased text, and
\* 'General News' when no category matches.
ThemeOrder == <<
    [label |-> "CSR/ESG", kws |-> csr_kws],
    [label |-> "Corporate", kws |-> corporate_kws],
    [label |-> "Partnership/Sponsorship", kws |-> partnership_kws],
    [label |-> "Product/Service", kws |-> product_kws],
    [label |-> "Legal/Risk", kws |-> legal_kws] >>

CategoriesIn(text) ==
    LET lowered == Lower(text)
    IN {c \in 1..Len(ThemeOrder) :
          \E j \in 1..Len(ThemeOrder[c].kws) :
              Contains(ThemeOrder[c].kws[j], lowered)}

C7_ThemeFirstMatch ==
    Returned =>
        \A i \in 1..Len(full_data) :
            LET hits == CategoriesIn(TextOf(full_data[i]))
            IN IF hits = {}
               THEN full_data[i].theme = "General News"
               ELSE \E c \in hits :
                       /\ \A d \in hits : c <= d
                       /\ full_data[i].theme = ThemeOrder[c].label

C7_Witness ==
    /\ Returned
    /\ \E i \in 1..Len(full_data) :
          /\ {2, 5} \subseteq CategoriesIn(TextOf(full_data[i]))
          /\ full_data[i].theme = "Corporate"

\* C8: the mentioned_brands of every record is exactly the set of names of
\* [brand] + competitors that occur in its text as a case-insensitive whole
\* word, and each record adds 1 to the counter of each of these names and 0
\* to every other, however often the name occurs.
C8_MentionedBrandsExact ==
    \A i \in 1..Len(full_data) :
        "mentioned_brands" \in DOMAIN full_data[i] =>
            LET names == RangeOf(<<brand>> \o competitors)
                stored == full_data[i].mentioned_brands
            IN /\ RangeOf(stored) =
                    {n \in names : OccursAsWord(Lower(n), Lower(TextOf(full_data[i])))}
               /\ Len(stored) = Cardinality(RangeOf(stored))
               /\ pc \in {"loop", "aggregate"} =>
                    \A n \in names :
                        Get(brand_counts, n, 0) =
                            Cardinality({j \in 1..(idx - 1) :
                                            n \in MentionedIn(full_data[j])})

\* C9: mis is the sum of authority (5 when the field is missing) over exactly
\* the records whose sentiment is 'positive' or 'appreciation'.
C9_MisIsAuthoritySum ==
    Returned =>
        LET favourable == {i \in 1..Len(full_data) :
                              full_data[i].sentiment \in {"positive", "appreciation"}}
            authority(i) == IF "authority" \in DOMAIN full_data[i]
                            THEN full_data[i].authority.v
                            ELSE 5
        IN kpis.mis = Num(SumOver([i \in favourable |-> authority(i)], favourable))

C9_Witness ==
    /\ Returned
    /\ kpis.mis = Num(5)
    /\ \E i, k \in 1..Len(full_data) :
          /\ full_data[i].sentiment \in {"positive", "appreciation"}
          /\ "authority" \notin DOMAIN full_data[i]
          /\ full_data[k].sentiment = "negative"
          /\ "authority" \in DOMAIN full_data[k]

\* C10: mpi is 100 times the number of records whose text contains, as a
\* case-insensitive substring, at least one campaign message, over the number
\* of records (a record matching several messages counts once), and 0 when
\* campaign_messages is empty.
C10_MpiIsMatchShare ==
    Returned =>
        LET hit(i) == \E m \in 1..Len(campaign_messages) :
                          Contains(Lower(campaign_messages[m]),
                                   Lower(TextOf(full_data[i])))
            n == Cardinality({i \in 1..Len(full_data) : hit(i)})
        IN IF campaign_messages = <<>>
           THEN kpis.mpi.num = 0
           ELSE kpis.mpi.num * Len(full_data) = 100 * n * kpis.mpi.den

C10_Witness ==
    /\ Returned
    /\ Len(campaign_messages) >= 2
    /\ \E i, j \in 1..Len(full_data) :
          /\ \A m \in 1..Len(campaign_messages) :
                Contains(Lower(campaign_messages[m]), Lower(TextOf(full_data[i])))
          /\ \A m \in 1..Len(campaign_messages) :
                ~Contains(Lower(campaign_messages[m]), Lower(TextOf(full_data[j])))

-----------------------------------------------------------------------------
(* Malformed numeric fields.                                               *)

\* The source of the record carries one of the social-platform markers.
HasSocialMarker(item) ==
    LET source == Lower(IF "source" \in DOMAIN item THEN item.source ELSE "")
    IN \E marker \in RangeOf(social_sources) : Contains(marker, source)

\* The field is missing (and then read as 0) or parses as an integer.
Parses(item, field) == field \in DOMAIN item => IntOk(item[field])

\* The integer read from the field, 0 when the field is missing.
Parsed(item, field) == IF field \in DOMAIN item THEN IntVal(item[field]) ELSE 0

\* C11: engagement_rate is the average of likes + comments over exactly the
\* records whose source contains a social marker and whose likes and comments
\* both parse as integers; a record with a likes or comments that fails to
\* parse, and a record without a marker, is in neither the numerator nor the
\* denominator; the rate is 0 when no record qualifies.
C11_EngagementRateIsSocialAverage ==
    Returned =>
        LET qualifying == {i \in 1..Len(full_data) :
                              /\ HasSocialMarker(full_data[i])
                              /\ Parses(full_data[i], "likes")
                              /\ Parses(full_data[i], "comments")}
            engagement(i) == Parsed(full_data[i], "likes")
                             + Parsed(full_data[i], "comments")
        IN kpis.engagement_rate =
              IF qualifying = {} THEN Zero
              ELSE Ratio(SumOver([i \in qualifying |-> engagement(i)], qualifying),
                         Cardinality(qualifying))

C11_Witness ==
    /\ Returned
    /\ kpis.engagement_rate = Ratio(15, 1)
    /\ \E i, k \in 1..Len(full_data) :
          /\ HasSocialMarker(full_data[i])
          /\ ~Parses(full_data[i], "likes")
          /\ Parses(full_data[i], "comments")
          /\ HasSocialMarker(full_data[k])
          /\ Parses(full_data[k], "likes")
          /\ Parses(full_data[k], "comments")

\* What the record adds to reach: its reach field when it is present, is not
\* NaN and parses as an integer, 0 otherwise.
ReachOf(item) ==
    IF "reach" \in DOMAIN item /\ item.reach # NaN /\ IntOk(item.reach)
    THEN IntVal(item.reach)
    ELSE 0

\* The record has no malformed field other than reach.
OnlyReachMalformed(item) ==
    /\ Parses(item, "likes")
    /\ Parses(item, "comments")
    /\ "authority" \in DOMAIN item => item.authority.t = "int"

\* C12: reach is the sum over all records of the reach field, a missing, NaN
\* or non-numeric reach counting 0; such a reach never makes compute_kpis
\* raise and never keeps the reach of the other records out of the sum.
C12_ReachSumsParsedValues ==
    /\ Returned =>
          kpis.reach = SumOver([i \in 1..Len(full_data) |-> ReachOf(full_data[i])],
                               1..Len(full_data))
    /\ (\A i \in 1..Len(full_data) : OnlyReachMalformed(full_data[i]))
          => pc # "raised"

C12_Witness ==
    /\ Returned
    /\ Len(full_data) = 2
    /\ "reach" \in DOMAIN full_data[1]
    /\ full_data[1].reach = Str("not a number")
    /\ "reach" \in DOMAIN full_data[2]
    /\ full_data[2].reach = Num(500)
    /\ kpis.reach = 500

\* C13 (refuted by a non-numeric authority): compute_kpis never raises
\* because of a malformed likes, comments, reach or authority; the offending
\* field counts as 0 and a full KPI summary is returned.
C13_NeverRaisesOnMalformedField ==
    /\ pc # "raised"
    /\ Returned =>
          LET favourable == {i \in 1..Len(full_data) :
                  full_data[i].sentiment \in {"positive", "appreciation"}}
              authority(i) ==
                  IF "authority" \notin DOMAIN full_data[i] THEN 5
                  ELSE IF full_data[i].authority.t = "int"
                       THEN full_data[i].authority.v
                       ELSE 0
          IN kpis.mis = Num(SumOver([i \in favourable |-> authority(i)], favourable))

-----------------------------------------------------------------------------
(* Empty input and the fields of the summary.                              *)

KpiFields == {"sov", "mis", "mpi", "engagement_rate", "reach"}

\* C14: an empty record collection returns the empty summary without raising,
\* and only an empty collection does: a summary returned for a non-empty
\* collection is not empty.
C14_EmptySummaryIffEmptyInput ==
    /\ pc = "done" => (kpis = <<>> <=> full_data = <<>>)
    /\ full_data = <<>> => pc # "raised"

C14_Witness ==
    /\ pc = "done"
    /\ full_data = <<>>
    /\ kpis = <<>>

\* C15 as stated (refuted by the empty collection, whose summary is {}): every
\* summary returned, for any input including an empty record collection,
\* contains all of sov, mis, mpi, engagement_rate and reach.
C15_EverySummaryHasKpiFields ==
    pc = "done" => KpiFields \subseteq DOMAIN kpis

\* C15 amended: every summary returned for a non-empty record collection
\* contains all of sov, mis, mpi, engagement_rate and reach, an mpi without
\* campaign messages and an sov without any brand mention being present as 0;
\* the summary returned for an empty collection contains none of the fields.
C15_NonEmptySummaryHasKpiFields ==
    /\ Returned =>
          /\ KpiFields \subseteq DOMAIN kpis
          /\ campaign_messages = <<>> => kpis.mpi = Zero
          /\ (\A i \in 1..Len(full_data) : MentionedIn(full_data[i]) = {})
                => \A j \in 1..Len(kpis.sov) : kpis.sov[j] = Zero
    /\ (pc = "done" /\ full_data = <<>>) => DOMAIN kpis \cap KpiFields = {}

C15_Witness ==
    /\ Returned
    /\ campaign_messages = <<>>
    /\ kpis.mpi = Zero
    /\ \A i \in 1..Len(full_data) : MentionedIn(full_data[i]) = {}

-----------------------------------------------------------------------------
(* Two calls on the same records.                                          *)

RatioFields == {"sentiment_ratio", "theme_ratio", "sov", "mis", "mpi",
                "engagement_rate", "reach"}

\* The second call has returned; earlier[1] holds the summary of the first.
ReturnedAgain == pc = "done" /\ earlier # <<>>

SameMetrics(a, b) ==
    /\ DOMAIN a = DOMAIN b
    /\ \A f \in RatioFields \cap DOMAIN a : a[f] = b[f]

SameAnnotations(a, b) ==
    /\ a.sentiment = b.sentiment
    /\ a.theme = b.theme
    /\ MentionedIn(a) = MentionedIn(b)

\* C16: a second call with the same arguments on the records as annotated by
\* the first returns identical sentiment_ratio, theme_ratio, sov, mis, mpi,
\* engagement_rate and reach, and leaves the sentiment, the theme and the set
\* of mentioned brands of every record as they were.
C16_SecondCallIdentical ==
    (ReturnedAgain /\ earlier[1].annotated) =>
        /\ SameMetrics(kpis, earlier[1].summary)
        /\ full_data # <<>> =>
              \A i \in 1..Len(full_data) :
                  SameAnnotations(full_data[i], earlier[1].summary.analyzed_data[i])

C16_Witness ==
    /\ ReturnedAgain
    /\ earlier[1].annotated
    /\ Len(full_data) = 2
    /\ MentionedIn(full_data[1]) = {"Zenith Bank", "Opay"}
    /\ full_data[2].sentiment = "negative"

\* C18: for every permutation of the record collection compute_kpis returns
\* the same sentiment_ratio, theme_ratio, sov, mis, mpi, engagement_rate and
\* reach, and every record receives the same sentiment, theme and set of
\* mentioned brands.
C18_OrderIndependent ==
    (ReturnedAgain /\ ~earlier[1].annotated) =>
        /\ SameMetrics(kpis, earlier[1].summary)
        /\ full_data # <<>> =>
              \A i \in 1..Len(full_data) :
                  SameAnnotations(full_data[i],
                      earlier[1].summary.analyzed_data[earlier[1].order[i]])

C18_Witness ==
    /\ ReturnedAgain
    /\ ~earlier[1].annotated
    /\ earlier[1].order = <<2, 1>>
    /\ full_data[1] # full_data[2]
    /\ kpis.engagement_rate # Zero
    /\ kpis.reach > 0

-----------------------------------------------------------------------------
(* The annotations and the ratio tables.                                   *)

SentimentLabels ==
    {"positive", "negative", "anger", "mixed", "appreciation", "neutral"}

ThemeLabels ==
    {"CSR/ESG", "Corporate", "Partnership/Sponsorship", "Product/Service",
     "Legal/Risk", "General News"}

\* C17: after compute_kpis returns for a non-empty input, every record of
\* analyzed_data carries one sentiment of the six sentiment labels, one theme
\* of the six theme labels, and a mentioned_brands list without duplicates
\* whose names all belong to {brand} and the competitors.
C17_AnnotationsWellFormed ==
    Returned =>
        \A i \in 1..Len(kpis.analyzed_data) :
            LET item == kpis.analyzed_data[i]
            IN /\ {"sentiment", "theme", "mentioned_brands"} \subseteq DOMAIN item
               /\ item.sentiment \in SentimentLabels
               /\ item.theme \in ThemeLabels
               /\ Cardinality(MentionedIn(item)) = Len(item.mentioned_brands)
               /\ MentionedIn(item) \subseteq {brand} \cup RangeOf(competitors)

C17_Witness ==
    /\ Returned
    /\ Len(competitors) = 2
    /\ competitors[1] = competitors[2]
    /\ \E i \in 1..Len(kpis.analyzed_data) :
          Len(kpis.analyzed_data[i].mentioned_brands) = 2

\* The records of analyzed_data that carry the label in the field.
Labelled(field, label) ==
    {i \in 1..Len(full_data) : full_data[i][field] = label}

\* The table has a key for exactly the labels some record carries, with the
\* share of these records times 100 as the value.
IsShareTable(table, field) ==
    /\ DOMAIN table = {full_data[i][field] : i \in 1..Len(full_data)}
    /\ \A label \in DOMAIN table :
          /\ table[label] = Ratio(Cardinality(Labelled(field, label)) * 100,
                                  Len(full_data))
          /\ table[label].num > 0
          /\ table[label].num <= 100 * table[label].den

\* C19: in sentiment_ratio and theme_ratio a label is a key exactly when some
\* record received it, its value is the number of records with the label over
\* the number of records, times 100, hence above 0 and at most 100; the
\* values of theme_ratio sum to 100.
C19_RatiosListPresentLabels ==
    Returned =>
        /\ IsShareTable(kpis.sentiment_ratio, "sentiment")
        /\ IsShareTable(kpis.theme_ratio, "theme")
        /\ SumsTo100(kpis.theme_ratio)

C19_Witness ==
    /\ Returned
    /\ Len(full_data) = 2
    /\ full_data[1].sentiment = full_data[2].sentiment
    /\ full_data[1].theme # full_data[2].theme
    /\ Cardinality(DOMAIN kpis.sentiment_ratio) = 1
    /\ Cardinality(DOMAIN kpis.theme_ratio) = 2

-----------------------------------------------------------------------------
(* The keyword ranking.                                                    *)

\* The tokens extract_keywords counts.
Kept == FilteredTokens(tokens, brand, competitors)

\* The merged frequency table of the kept tokens: every word with its number
\* of occurrences, every pair of adjacent words that occurs at least twice
\* with its number of occurrences; `met` orders the entries by first
\* encounter, the words before the phrases.
MergedTable(kept) ==
    LET FirstAt(S) == CHOOSE i \in S : \A j \in S : i <= j
        words == RangeOf(kept)
        pairs == {<<kept[i], kept[i + 1]>> : i \in 1..(Len(kept) - 1)}
        WordAt(w) == {i \in 1..Len(kept) : kept[i] = w}
        PairAt(q) == {i \in 1..(Len(kept) - 1) : kept[i] = q[1] /\ kept[i + 1] = q[2]}
    IN {[term |-> w, freq |-> Cardinality(WordAt(w)), met |-> FirstAt(WordAt(w))] :
           w \in words}
       \cup {[term |-> q[1] \o " " \o q[2],
              freq |-> Cardinality(PairAt(q)),
              met |-> Len(kept) + FirstAt(PairAt(q))] :
                q \in {r \in pairs : Cardinality(PairAt(r)) >= 2}}

\* C20: extract_keywords returns at most 10 (term, frequency) pairs of the
\* merged word/phrase frequency table (10 of them whenever a term is left
\* out), in non-increasing frequency order, no term left out being more
\* frequent than a returned one; the list is a function of the corpus, brand
\* and competitors (terms of equal frequency are returned in the order they
\* were first met, and come before every left-out term of that frequency);
\* no kept token gives the empty list.
C20_TopTenByFrequency ==
    kw_pc = "done" =>
        LET kept == Kept
            table == MergedTable(kept)
            n == Len(keywords)
            entries == [k \in 1..n |->
                          {e \in table : e.term = keywords[k][1]
                                         /\ e.freq = keywords[k][2]}]
            left_out == table \ UNION {entries[k] : k \in 1..n}
        IN /\ n <= 10
           /\ \A k \in 1..n : entries[k] # {}
           /\ \A k, l \in 1..n : k # l => keywords[k][1] # keywords[l][1]
           /\ \A k \in 1..(n - 1) : keywords[k][2] >= keywords[k + 1][2]
           /\ \A e \in left_out : \A k \in 1..n : e.freq <= keywords[k][2]
           /\ \A k \in 1..(n - 1) :
                 keywords[k][2] = keywords[k + 1][2]
                    => \A e \in entries[k], f \in entries[k + 1] : e.met < f.met
           /\ \A f \in left_out : \A k \in 1..n :
                 f.freq = keywords[k][2] => \A e \in entries[k] : e.met < f.met
           /\ left_out # {} => n = 10
           /\ kept = <<>> => keywords = <<>>

C20_Witness ==
    /\ kw_pc = "done"
    /\ Len(keywords) = 10
    /\ Cardinality(MergedTable(Kept)) > 10
    /\ keywords[1][2] > keywords[10][2]
    /\ \E k \in 1..10 : \E i \in 1..Len(keywords[k][1]) : CharAt(keywords[k][1], i) = " "

\* The words of s: its maximal runs of characters other than the blank.
WordsOf(s) ==
    LET n == Len(s)
        IsWord(i, j) ==
            /\ i <= j
            /\ \A k \in i..j : CharAt(s, k) # " "
            /\ i = 1 \/ CharAt(s, i - 1) = " "
            /\ j = n \/ CharAt(s, j + 1) = " "
    IN {SubSeq(s, p[1], p[2]) : p \in {q \in (1..n) \X (1..n) : IsWord(q[1], q[2])}}

\* The lowercased words of the brand name and of the competitor names.
NameWords ==
    UNION {WordsOf(Lower(n)) : n \in {brand} \cup RangeOf(competitors)}

\* C21 (refuted by a name of several words): no term returned by
\* extract_keywords is, or has among its words, a stop word or a word of the
\* brand name or of a competitor name, and every returned word is lowercase,
\* alphabetic and longer than 2 characters.
C21_NoStopwordOrNameWord ==
    kw_pc = "done" =>
        LET names == NameWords
        IN \A k \in 1..Len(keywords) :
              \A w \in WordsOf(keywords[k][1]) :
                  /\ w \notin initial_stop_words
                  /\ w \notin names
                  /\ Lower(w) = w
                  /\ IsAlpha(w)
                  /\ Len(w) > 2

\* The number of places where v and w are adjacent among the kept tokens.
PairCount(kept, v, w) ==
    Cardinality({i \in 1..(Len(kept) - 1) : kept[i] = v /\ kept[i + 1] = w})

\* The blank-separated halves of a two-word phrase.
HalvesOf(term) ==
    LET at == CHOOSE i \in 1..Len(term) : CharAt(term, i) = " "
    IN <<SubSeq(term, 1, at - 1), SubSeq(term, at + 1, Len(term))>>

IsPhrase(term) == \E i \in 1..Len(term) : CharAt(term, i) = " "

\* C22: every two-word phrase returned by extract_keywords occurs at least
\* 2 times as a pair of adjacent kept tokens and is reported with exactly that
\* number; a pair occurring once is never returned; a single word is reported
\* with its number of occurrences, which may be 1.
C22_PhrasesOccurTwice ==
    kw_pc = "done" =>
        LET kept == Kept
        IN /\ \A k \in 1..Len(keywords) :
                 LET term == keywords[k][1]
                 IN IF IsPhrase(term)
                    THEN /\ PairCount(kept, HalvesOf(term)[1], HalvesOf(term)[2]) >= 2
                         /\ keywords[k][2]
                              = PairCount(kept, HalvesOf(term)[1], HalvesOf(term)[2])
                    ELSE /\ keywords[k][2]
                              = Cardinality({i \in 1..Len(kept) : kept[i] = term})
                         /\ keywords[k][2] >= 1
           /\ \A i \in 1..(Len(kept) - 1) :
                 PairCount(kept, kept[i], kept[i + 1]) = 1
                    => \A k \in 1..Len(keywords) :
                          keywords[k][1] # kept[i] \o " " \o kept[i + 1]
           /\ Len(kept) <= 10 =>
                 \A i \in 1..Len(kept) : \E k \in 1..Len(keywords) :
                     keywords[k][1] = kept[i]

C22_Witness ==
    /\ kw_pc = "done"
    /\ \E k, l \in 1..Len(keywords) :
          /\ keywords[k] = <<"mobile banking", 2>>
          /\ keywords[l] = <<"loan", 1>>
    /\ PairCount(Kept, "app", "mobile") = 1
    /\ \A k \in 1..Len(keywords) : keywords[k][1] # "app mobile"

-----------------------------------------------------------------------------
(* What a compute_kpis run writes.                                         *)

Annotations == {"sentiment", "theme", "mentioned_brands"}

\* The record is the input record plus, possibly, annotations.
SameButAnnotations(item, original) ==
    /\ DOMAIN original \subseteq DOMAIN item
    /\ DOMAIN item \subseteq DOMAIN original \cup Annotations
    /\ \A k \in DOMAIN original \ Annotations : item[k] = original[k]

\* C23: during a compute_kpis run no record is removed, added, duplicated or
\* reordered, the records are annotated one after the other, each once (the
\* loop has annotated the records before its position and not touched the
\* others), only sentiment, theme and mentioned_brands are written, and
\* analyzed_data is the annotated list.
C23_OnlyAnnotationsWritten ==
    /\ Len(full_data) = Len(input)
    /\ \A i \in 1..Len(full_data) : SameButAnnotations(full_data[i], input[i])
    /\ pc = "loop" =>
          \A i \in 1..Len(full_data) :
              IF i < idx THEN Annotations \subseteq DOMAIN full_data[i]
              ELSE full_data[i] = input[i]
    /\ Returned =>
          /\ kpis.analyzed_data = full_data
          /\ \A i \in 1..Len(full_data) : Annotations \subseteq DOMAIN full_data[i]

C23_Witness ==
    /\ Returned
    /\ Len(kpis.analyzed_data) = 2
    /\ kpis.analyzed_data[1] # kpis.analyzed_data[2]
    /\ \E i \in 1..2 :
          {"text", "source", "likes", "comments", "reach", "authority"}
              \subseteq DOMAIN kpis.analyzed_data[i]

-----------------------------------------------------------------------------
(* The channels of send_alert.                                             *)

\* send_alert has ended, by returning or by raising.
AlertEnded == run_pc \in {"alert_done", "alert_raised"}

Did(what) == what \in RangeOf(notified)

\* C30 (refuted by an SMTP_PORT that is not a number, and by a quit() that
\* fails after the message went out): send_alert delivers through at most one
\* channel; Slack is tried first, and exactly when a Slack token is set;
\* email is tried only if Slack did not deliver and a recipient and SMTP
\* credentials are present; the fallback is printed exactly when neither
\* Slack nor email delivered; no failure leaves send_alert as an exception.
C30_OneChannelInOrder ==
    AlertEnded =>
        /\ run_pc # "alert_raised"
        /\ ~(Did("deliver_slack") /\ Did("deliver_email"))
        /\ Did("try_slack") <=> env.slack_token
        /\ Did("try_slack") => notified[1] = "try_slack"
        /\ Did("try_email") =>
              /\ ~Did("deliver_slack")
              /\ handled.to_email # ""
              /\ env.smtp_creds
        /\ Did("print_fallback") <=> ~(Did("deliver_slack") \/ Did("deliver_email"))

-----------------------------------------------------------------------------
(* The pages.                                                              *)

\* No analysis run is in progress.
Idle == run_pc = "idle"

\* C24 (refuted by a run whose keyword extraction raises): whenever no run is
\* in progress, analysis.stop_words holds exactly the words it held after
\* initialization; the names of one run never stay in it for a later one.
C24_StopWordsReadOnly == Idle => stop_words = initial_stop_words

\* The share of records labelled negative or anger is above limit percent.
NegativeShareOver(data, limit) ==
    Cardinality({i \in 1..Len(data) :
                    Get(data[i], "sentiment", "") \in {"negative", "anger"}}) * 100
        > limit * Len(data)

\* A run has ended and left its summary in the session.
RunEndedWithKpis == Idle /\ handled.event = "run" /\ session.kpis # <<>>

\* C25 (refuted by a run in which send_alert raises, C30, and by a run whose
\* keyword extraction raises): after an analysis run, send_alert followed by
\* create_servicenow_ticket has been invoked exactly when the negative and
\* anger percentages together exceed 30; at 30 or below neither is invoked.
C25_AlertIffOverLimit ==
    RunEndedWithKpis =>
        IF NegativeShareOver(session.full_data, AlertLimit)
        THEN /\ notified # <<>>
             /\ notified[1] = "send_alert"
             /\ notified[Len(notified)] = "create_servicenow_ticket"
        ELSE notified = <<>>

\* The file has a column for the internal name.
HasColumn(file, internal) ==
    \E i \in 1..Len(file.columns), j \in 1..Len(column_map[internal]) :
        Lower(Strip(file.columns[i])) = column_map[internal][j]

\* The file cannot be loaded: missing, unreadable, or without a column for
\* the text, the date or the source.
Unloadable(file) ==
    \/ file.status # "ok"
    \/ \E internal \in {"text", "date", "source"} : ~HasColumn(file, internal)

\* The last event was Run Analysis and its load returned no record.
LoadFailed == handled.event = "run" /\ ~handled.loaded

\* C26: a load that fails returns no record, and the run stops before
\* compute_kpis and extract_keywords are called, with the session's kpis,
\* full_data and top_keywords empty; whenever records are returned, every
\* record has likes, comments, reach and authority, with 0, 0, 1000 and 5
\* where the file lacks the column.
C26_FailedLoadStopsRun ==
    handled.event = "run" =>
        /\ Unloadable(env.data_file) => LoadFailed
        /\ LoadFailed =>
              /\ Idle /\ pc = "idle" /\ kw_pc = "idle"
              /\ kpis = <<>> /\ keywords = <<>>
              /\ session.kpis = <<>>
              /\ session.full_data = <<>>
              /\ session.top_keywords = <<>>
        /\ \A i \in 1..Len(input) :
              /\ {"likes", "comments", "reach", "authority"} \subseteq DOMAIN input[i]
              /\ ~HasColumn(env.data_file, "likes") => input[i].likes = Num(0)
              /\ ~HasColumn(env.data_file, "comments") => input[i].comments = Num(0)
              /\ ~HasColumn(env.data_file, "reach") => input[i].reach = Num(1000)
              /\ ~HasColumn(env.data_file, "authority") => input[i].authority = Num(5)

\* A file without a source column was refused, and the run went no further.
C26_Witness ==
    /\ LoadFailed
    /\ env.data_file.status = "ok"
    /\ ~HasColumn(env.data_file, "source")
    /\ Idle

ReportGenerated == Get(session, "report_generated", FALSE)

\* C27: while report_generated is true both report files are set and kpis and
\* full_data are not empty, and the files were built from exactly these; a
\* Run Analysis leaves report_generated false and both files unset from its
\* first step on; report_generated becomes true only in a Generate Reports
\* whose two builds both succeeded.
C27_ReportOfLatestAnalysis ==
    /\ [](ReportGenerated =>
             /\ session.pdf_report_bytes # None
             /\ session.excel_report_bytes # None
             /\ session.kpis # <<>>
             /\ session.full_data # <<>>
             /\ session.pdf_report_bytes.of = session.kpis
             /\ session.excel_report_bytes.of = session.full_data)
    /\ [](handled.event = "run" =>
             /\ ~ReportGenerated
             /\ session.pdf_report_bytes = None
             /\ session.excel_report_bytes = None)
    /\ [][ReportGenerated' /\ ~ReportGenerated =>
             /\ handled'.event = "generate"
             /\ handled'.pdf_generated
             /\ handled'.excel_generated]_vars

\* Both reports were generated from the analysis of the crisis file.
C27_Witness ==
    /\ ReportGenerated
    /\ handled.event = "generate"
    /\ session.kpis.reach = 120

\* C28: after Logout, logged_in is false, username is empty, full_data, kpis
\* and top_keywords are empty, report_generated is false, both report files
\* are None and ai_summary_text is empty.
C28_LogoutClearsSession ==
    handled.event = "logout" =>
        session = [logged_in |-> FALSE, username |-> "",
                   full_data |-> <<>>, kpis |-> <<>>, top_keywords |-> <<>>,
                   report_generated |-> FALSE, pdf_report_bytes |-> None,
                   excel_report_bytes |-> None, ai_summary_text |-> ""]

\* The logout came after an analysis of this session.
C28_Witness == handled.event = "logout" /\ kpis # <<>> /\ keywords # <<>>

DashboardEvents ==
    {"run", "generate", "download_pdf", "download_excel", "email", "logout"}

\* C29: a dashboard event is handled only in a state where logged_in is
\* true; logged_in becomes true only by a login with 'zenith' and 'pass', and
\* any other pair leaves it false; while logged_in is false no run is in
\* progress and the last event is a logout, a login attempt or a refusal.
C29_LoginGuardsDashboard ==
    /\ [](~LoggedIn =>
             /\ Idle
             /\ handled.event \in {"none", "logout", "login", "refused"}
             /\ handled.event = "login" => ~handled.ok)
    /\ [][/\ (handled' # handled /\ handled'.event \in DashboardEvents) => LoggedIn
          /\ (LoggedIn' /\ ~LoggedIn) =>
                /\ handled'.event = "login"
                /\ handled'.username = "zenith"
                /\ handled'.password = "pass"
          /\ (~LoggedIn /\ handled'.event = "login"
              /\ ~(handled'.username = "zenith" /\ handled'.password = "pass"))
                => ~LoggedIn']_vars

\* After an analysis and a logout the dashboard was refused.
C29_Witness == ~LoggedIn /\ handled.event = "refused" /\ kpis # <<>>

====
